---- MODULE Spec2Model ----
(***************************************************************************)
(* stage_fright: a StageManager owns a list of stage descriptors (name +   *)
(* opaque args) and a registry name -> factory.  run_stages walks the list *)
(* lazily: look the factory up, build the stage from a clone of the args,  *)
(* call setup(), call run(context), drop the stage, go to the next one.    *)
(* A failure is a Rust panic: it unwinds every enclosing run_stages.       *)
(***************************************************************************)
EXTENDS Integers, Sequences, FiniteSets, TLC

\* ------------------------------------------------------------- bounds
MaxLen == 2        \* longest top-level descriptor list
MaxNested == 2     \* longest nested descriptor list
MaxArg == 2        \* the args' x values are 2..MaxArg
MaxCtx == 1        \* the initial context's x values are 1..MaxCtx
MaxRuns == 2       \* calls of run on the manager

\* ------------------------------------------------------------- data
Names == {"add", "mul", "top"}

NoEntry == "NoEntry"

\* The stage types: Add, Mul and Top of the tests, StageManager itself
\* (it implements Stage), and two stages whose setup / run panics.
Types == {"Add", "Mul", "Top", "StageManager", "PanicInSetup", "PanicInRun"}

\* Stage names given to the wrong types.
StageNameOfSwapped(T) ==
    CASE T = "Add" -> "mul"
      [] T = "Mul" -> "add"
      [] T = "Top" -> "top"

\* StageName::stage_name of Add, Mul and Top.
StageNameOf(T) ==
    CASE T = "Add" -> "add"
      [] T = "Mul" -> "mul"
      [] T = "Top" -> "top"

NamedTypes == {"Add", "Mul", "Top"}

\* HashMap::new(): no name is bound.
EmptyMap == [n \in Names |-> NoEntry]

\* A generic value: a mapping with key x, a mapping with key stages, or a
\* scalar (which no stage type's schema accepts).
XVal(n) == [kind |-> "x", x |-> n, stages |-> <<>>]
StagesVal(l) == [kind |-> "stages", x |-> 0, stages |-> l]
BadArg == [kind |-> "scalar", x |-> 0, stages |-> <<>>]

StageArgs(n, a) == [name |-> n, args |-> a]

SeqsUpTo(S, n) == UNION {[1..k -> S] : k \in 0..n}

ArgVals == 2..MaxArg
XArgs == {XVal(n) : n \in ArgVals}

NestedDescs ==
    {StageArgs(n, a) : n \in {"add", "mul"}, a \in XArgs}
        \cup {StageArgs("add", BadArg), StageArgs("top", BadArg)}

NestedFiles == SeqsUpTo(NestedDescs, MaxNested)

TopDescs ==
    {StageArgs(n, a) : n \in {"add", "mul"}, a \in XArgs}
        \cup {StageArgs("add", BadArg)}
        \cup {StageArgs("top", StagesVal(l)) : l \in NestedFiles}

Files == SeqsUpTo(TopDescs, MaxLen)

CtxVals == 1..MaxCtx

\* The registrations the application makes: register_named(name, type).
RegInputs ==
    {<<"add", "Add">>, <<"add", "Mul">>, <<"add", "PanicInSetup">>,
     <<"mul", "Mul">>, <<"mul", "PanicInRun">>,
     <<"top", "Top">>, <<"top", "StageManager">>}

\* ------------------------------------------------------------- state
VARIABLES
    file,             \* StageManager.file.stages
    deserialize_map,  \* StageManager.deserialize_map
    context,          \* the caller's context (CalcContext.x)
    stack,            \* the run_stages calls in progress, outermost first
    status,           \* the caller: "idle", "running", "done", "panicked"
    panic,            \* the payload of the panic that ended the run
    fail,             \* where the run failed (history)
    events,           \* what this run did, in order (history)
    trace,            \* the leaf stages that ran on the context (history)
    ctx0,             \* the context the run started from (history)
    ids,              \* factory calls of this run (history)
    runs,             \* calls of run so far
    prev,             \* outcome of the run before, if still comparable
    lastReg           \* the latest register_named call, until the next run

vars == <<file, deserialize_map, context, stack, status, panic, fail,
          events, trace, ctx0, ids, runs, prev, lastReg>>

NoInst == [type |-> "None", id |-> 0, x |-> 0, stages |-> <<>>, map |-> EmptyMap]
NoPanic == [msg |-> "", names |-> {}, indices |-> {}]
NoFail == [path |-> <<>>, name |-> "", op |-> ""]
NoReg == [name |-> "", type |-> "", old |-> ""]
NoPrev == [valid |-> FALSE, ctx0 |-> 0, status |-> "", context |-> 0,
           fail |-> NoFail, panic |-> NoPanic, trace |-> <<>>]

\* One run_stages call: the manager it runs on (stages, map), the iterator
\* position i, where the closure stands, the factory f it looked up and the
\* stage instance s it holds.
Frame(stages, map) ==
    [stages |-> stages, map |-> map, i |-> 1, pc |-> "lookup",
     f |-> NoEntry, inst |-> NoInst]

\* An iterator that steps over every other descriptor.
IterNextSkips(i) == i + 2

\* self.file.stages.iter(): the position after i.
IterNext(i) == i + 1

\* ------------------------------------------------------------- registry
\* A registry that holds each stage type once: a type already bound to some
\* name is not bound again.
RegisterNamedOncePerType(map, name, T) ==
    IF \E n \in Names : map[n] = T THEN map ELSE [map EXCEPT ![name] = T]

\* A registration that replaces the whole registry by the one binding.
RegisterNamedClears(map, name, T) ==
    [n \in Names |-> IF n = name THEN T ELSE NoEntry]

\* A registration that keeps an existing binding (entry().or_insert()).
RegisterNamedKeepsFirst(map, name, T) ==
    IF map[name] = NoEntry THEN [map EXCEPT ![name] = T] ELSE map

\* self.deserialize_map.insert(name.to_string(), factory)
RegisterNamed(map, name, T) == [map EXCEPT ![name] = T]

Register(map, T) == RegisterNamed(map, StageNameOf(T), T)

\* ------------------------------------------------------------- factory
\* A deserialization that takes any value, filling in defaults.
AcceptsAnything(T, v) == TRUE

\* S::deserialize(v): the derived Deserialize of each stage type.
Accepts(T, v) ==
    CASE T \in {"Add", "Mul", "PanicInSetup", "PanicInRun"} -> v.kind = "x"
      [] T \in {"Top", "StageManager"} -> v.kind = "stages"

\* The stage built from v; a manager built by deserialization has an empty
\* deserialize_map (serde(skip)).
Deserialize(T, v, id) ==
    [type |-> T, id |-> id, x |-> v.x, stages |-> v.stages, map |-> EmptyMap]

SerdeError(T, v) ==
    IF v.kind = "scalar" THEN "invalid type"
    ELSE IF T \in {"Top", "StageManager"} THEN "missing field stages"
    ELSE "missing field x"

\* The Index of HashMap panics on a missing key with a fixed message.
IndexPanic == [msg |-> "no entry found for key", names |-> {}, indices |-> {}]

\* Result::unwrap() panics with the serde error.
UnwrapPanic(T, v) == [msg |-> SerdeError(T, v), names |-> {}, indices |-> {}]

StagePanic(T) == [msg |-> T, names |-> {}, indices |-> {}]

\* ------------------------------------------------------------- stages
\* A setup that registers Add and Mul on the manager of every stage, the
\* bare StageManager included.
SetupOfAlwaysRegisters(inst) ==
    [inst EXCEPT !.map = [n \in Names |->
        IF n = "add" THEN "Add" ELSE IF n = "mul" THEN "Mul" ELSE inst.map[n]]]

\* A Top whose setup registers nothing.
SetupOfRegistersNothing(inst) == inst

\* Stage::setup of each type: Top registers Add and Mul on its manager, the
\* others keep the default no-op.
SetupOf(inst) ==
    IF inst.type = "Top"
    THEN [inst EXCEPT !.map = Register(Register(inst.map, "Add"), "Mul")]
    ELSE inst

\* Stage::run of the leaf types on the context.
RunOf(inst, c) ==
    CASE inst.type = "Add" -> c + inst.x
      [] inst.type = "Mul" -> c * inst.x
      [] OTHER -> c

IsManager(T) == T \in {"Top", "StageManager"}

\* ------------------------------------------------------------- actions
\* A from_file that registers the built-in stage Add under its own name.
InitWithDefaults ==
    /\ file \in Files
    /\ deserialize_map = [EmptyMap EXCEPT !["add"] = "Add"]
    /\ context \in CtxVals
    /\ stack = <<>>
    /\ status = "idle"
    /\ panic = NoPanic
    /\ fail = NoFail
    /\ events = <<>>
    /\ trace = <<>>
    /\ ctx0 = context
    /\ ids = 0
    /\ runs = 0
    /\ prev = NoPrev
    /\ lastReg = NoReg

Init ==
    /\ file \in Files
    /\ deserialize_map = EmptyMap
    /\ context \in CtxVals
    /\ stack = <<>>
    /\ status = "idle"
    /\ panic = NoPanic
    /\ fail = NoFail
    /\ events = <<>>
    /\ trace = <<>>
    /\ ctx0 = context
    /\ ids = 0
    /\ runs = 0
    /\ prev = NoPrev
    /\ lastReg = NoReg

Depth == Len(stack)
Cur == stack[Depth]
SetCur(fr) == [stack EXCEPT ![Depth] = fr]
Path == [k \in 1..Depth |-> stack[k].i]
Ev(op, id) == [op |-> op, path |-> Path, id |-> id]

\* A run_stages that catches the panic of a stage and goes on with the next
\* descriptor.
UnwindCaught(op, payload) ==
    /\ stack' = SetCur([Cur EXCEPT !.pc = "lookup", !.i = IterNext(Cur.i),
                        !.f = NoEntry, !.inst = NoInst])
    /\ UNCHANGED <<status, panic, fail>>

\* A panic unwinds all the run_stages calls in progress; the context keeps
\* what the stages did to it.
Unwind(op, payload) ==
    /\ status' = "panicked"
    /\ panic' = payload
    /\ fail' = [path |-> Path, name |-> Cur.stages[Cur.i].name, op |-> op]
    /\ stack' = <<>>

register_named(name, T) ==
    /\ status # "running"
    /\ runs < MaxRuns
    /\ deserialize_map' = RegisterNamed(deserialize_map, name, T)
    /\ status' = "idle"
    /\ panic' = NoPanic
    /\ fail' = NoFail
    /\ prev' = NoPrev
    /\ lastReg' = [name |-> name, type |-> T, old |-> deserialize_map[name]]
    /\ events' = <<>>
    /\ trace' = <<>>
    /\ ids' = 0
    /\ ctx0' = context
    /\ UNCHANGED <<file, context, stack, runs>>

register(T) == register_named(StageNameOf(T), T)

\* A run that constructs every stage of the list before it runs the first
\* (the iterator collected ahead): a descriptor that cannot be resolved or
\* constructed fails the run before any stage has run.
runEager(c) ==
    LET bad == {k \in 1..Len(file) :
                  \/ deserialize_map[file[k].name] = NoEntry
                  \/ ~Accepts(deserialize_map[file[k].name], file[k].args)}
        k0 == CHOOSE k \in bad : \A k2 \in bad : k <= k2
    IN
    /\ status # "running"
    /\ runs < MaxRuns
    /\ runs' = runs + 1
    /\ prev' = NoPrev
    /\ context' = c
    /\ ctx0' = c
    /\ events' = <<>>
    /\ trace' = <<>>
    /\ ids' = 0
    /\ lastReg' = NoReg
    /\ IF bad = {}
       THEN /\ stack' = <<Frame(file, deserialize_map)>>
            /\ status' = "running"
            /\ panic' = NoPanic
            /\ fail' = NoFail
       ELSE /\ stack' = <<>>
            /\ status' = "panicked"
            /\ panic' = IF deserialize_map[file[k0].name] = NoEntry THEN IndexPanic
                         ELSE UnwrapPanic(deserialize_map[file[k0].name], file[k0].args)
            /\ fail' = [path |-> <<k0>>, name |-> file[k0].name,
                        op |-> IF deserialize_map[file[k0].name] = NoEntry
                               THEN "lookup" ELSE "factory"]
    /\ UNCHANGED <<file, deserialize_map>>

\* m.run(&mut c): the caller hands a context to run_stages.
run(c) ==
    /\ status # "running"
    /\ runs < MaxRuns
    /\ runs' = runs + 1
    /\ prev' = IF status \in {"done", "panicked"}
               THEN [valid |-> TRUE, ctx0 |-> ctx0, status |-> status,
                     context |-> context, fail |-> fail, panic |-> panic,
                     trace |-> trace]
               ELSE NoPrev
    /\ context' = c
    /\ ctx0' = c
    /\ stack' = <<Frame(file, deserialize_map)>>
    /\ status' = "running"
    /\ panic' = NoPanic
    /\ fail' = NoFail
    /\ events' = <<>>
    /\ trace' = <<>>
    /\ ids' = 0
    /\ lastReg' = NoReg
    /\ UNCHANGED <<file, deserialize_map>>

\* A lookup that steps over a descriptor whose name is not bound.
LookupSkipsMissing ==
    /\ status = "running"
    /\ Cur.pc = "lookup"
    /\ Cur.i <= Len(Cur.stages)
    /\ LET f == Cur.map[Cur.stages[Cur.i].name] IN
         IF f = NoEntry
         THEN stack' = SetCur([Cur EXCEPT !.i = IterNext(Cur.i)])
         ELSE stack' = SetCur([Cur EXCEPT !.pc = "factory", !.f = f])
    /\ UNCHANGED <<file, deserialize_map, context, status, panic, fail, events,
                   trace, ctx0, ids, runs, prev, lastReg>>

\* let f = &self.deserialize_map[&s.name];
Lookup ==
    /\ status = "running"
    /\ Cur.pc = "lookup"
    /\ Cur.i <= Len(Cur.stages)
    /\ LET f == Cur.map[Cur.stages[Cur.i].name] IN
         IF f = NoEntry
         THEN /\ Unwind("lookup", IndexPanic)
              /\ UNCHANGED events
         ELSE /\ stack' = SetCur([Cur EXCEPT !.pc = "factory", !.f = f])
              /\ events' = Append(events, Ev("lookup", 0))
              /\ UNCHANGED <<status, panic, fail>>
    /\ UNCHANGED <<file, deserialize_map, context, trace, ctx0, ids, runs, prev, lastReg>>

\* A factory call that takes the args out of the descriptor instead of
\* cloning them.
FactoryTakesArgs ==
    /\ status = "running"
    /\ Cur.pc = "factory"
    /\ LET v == Cur.stages[Cur.i].args IN
         IF Accepts(Cur.f, v)
         THEN /\ stack' = SetCur([Cur EXCEPT !.pc = "setup",
                                  !.inst = Deserialize(Cur.f, v, ids + 1)])
              /\ ids' = ids + 1
              /\ events' = Append(events, Ev("factory", ids + 1))
              /\ file' = IF Depth = 1 THEN [file EXCEPT ![Cur.i].args = BadArg]
                         ELSE file
              /\ UNCHANGED <<status, panic, fail>>
         ELSE /\ Unwind("factory", UnwrapPanic(Cur.f, v))
              /\ UNCHANGED <<events, ids, file>>
    /\ UNCHANGED <<deserialize_map, context, trace, ctx0, runs, prev, lastReg>>

\* let mut s = f(s.args.clone());
Factory ==
    /\ status = "running"
    /\ Cur.pc = "factory"
    /\ LET v == Cur.stages[Cur.i].args IN
         IF Accepts(Cur.f, v)
         THEN /\ stack' = SetCur([Cur EXCEPT !.pc = "setup",
                                  !.inst = Deserialize(Cur.f, v, ids + 1)])
              /\ ids' = ids + 1
              /\ events' = Append(events, Ev("factory", ids + 1))
              /\ UNCHANGED <<status, panic, fail>>
         ELSE /\ Unwind("factory", UnwrapPanic(Cur.f, v))
              /\ UNCHANGED <<events, ids>>
    /\ UNCHANGED <<file, deserialize_map, context, trace, ctx0, runs, prev, lastReg>>

\* A closure that hands the stage on without calling setup.
SetupNotCalled ==
    /\ status = "running"
    /\ Cur.pc = "setup"
    /\ stack' = SetCur([Cur EXCEPT !.pc = "run"])
    /\ UNCHANGED <<file, deserialize_map, context, status, panic, fail, events,
                   trace, ctx0, ids, runs, prev, lastReg>>

\* s.setup();
Setup ==
    /\ status = "running"
    /\ Cur.pc = "setup"
    /\ IF Cur.inst.type = "PanicInSetup"
       THEN /\ Unwind("setup", StagePanic(Cur.inst.type))
            /\ events' = Append(events, Ev("setup", Cur.inst.id))
       ELSE /\ stack' = SetCur([Cur EXCEPT !.pc = "run", !.inst = SetupOf(Cur.inst)])
            /\ events' = Append(events, Ev("setup", Cur.inst.id))
            /\ UNCHANGED <<status, panic, fail>>
    /\ UNCHANGED <<file, deserialize_map, context, trace, ctx0, ids, runs, prev, lastReg>>

\* A closure that keeps the stage it ran (pushed to a list that lives as
\* long as the run) instead of dropping it.
StageRunKeepsStage ==
    /\ status = "running"
    /\ Cur.pc = "run"
    /\ ~IsManager(Cur.inst.type)
    /\ IF Cur.inst.type = "PanicInRun"
       THEN /\ Unwind("run", StagePanic(Cur.inst.type))
            /\ events' = Append(events, Ev("run", Cur.inst.id))
            /\ UNCHANGED <<context, trace>>
       ELSE /\ context' = RunOf(Cur.inst, context)
            /\ trace' = Append(trace, [type |-> Cur.inst.type, x |-> Cur.inst.x])
            /\ events' = Append(events, Ev("run", Cur.inst.id))
            /\ stack' = SetCur([Cur EXCEPT !.pc = "lookup", !.i = IterNext(Cur.i),
                                !.f = NoEntry, !.inst = NoInst])
            /\ UNCHANGED <<status, panic, fail>>
    /\ UNCHANGED <<file, deserialize_map, ctx0, ids, runs, prev, lastReg>>

\* s.run(context) of a leaf stage; s is dropped when the closure ends.
StageRun ==
    /\ status = "running"
    /\ Cur.pc = "run"
    /\ ~IsManager(Cur.inst.type)
    /\ IF Cur.inst.type = "PanicInRun"
       THEN /\ Unwind("run", StagePanic(Cur.inst.type))
            /\ events' = Append(events, Ev("run", Cur.inst.id))
            /\ UNCHANGED <<context, trace>>
       ELSE /\ context' = RunOf(Cur.inst, context)
            /\ trace' = Append(trace, [type |-> Cur.inst.type, x |-> Cur.inst.x])
            /\ events' = events \o <<Ev("run", Cur.inst.id), Ev("drop", Cur.inst.id)>>
            /\ stack' = SetCur([Cur EXCEPT !.pc = "lookup", !.i = IterNext(Cur.i),
                                !.f = NoEntry, !.inst = NoInst])
            /\ UNCHANGED <<status, panic, fail>>
    /\ UNCHANGED <<file, deserialize_map, ctx0, ids, runs, prev, lastReg>>

\* A nested manager that falls back on the bindings of its parent.
NestedRunInherits ==
    /\ status = "running"
    /\ Cur.pc = "run"
    /\ IsManager(Cur.inst.type)
    /\ stack' = Append(SetCur([Cur EXCEPT !.pc = "wait"]),
                       Frame(Cur.inst.stages,
                             [n \in Names |-> IF Cur.inst.map[n] # NoEntry
                                              THEN Cur.inst.map[n] ELSE Cur.map[n]]))
    /\ events' = Append(events, Ev("run", Cur.inst.id))
    /\ UNCHANGED <<file, deserialize_map, context, status, panic, fail,
                   trace, ctx0, ids, runs, prev, lastReg>>

\* s.run(context) of a stage that is, or wraps, a StageManager: run_stages
\* of the nested manager on the same context.
NestedRun ==
    /\ status = "running"
    /\ Cur.pc = "run"
    /\ IsManager(Cur.inst.type)
    /\ stack' = Append(SetCur([Cur EXCEPT !.pc = "wait"]),
                       Frame(Cur.inst.stages, Cur.inst.map))
    /\ events' = Append(events, Ev("run", Cur.inst.id))
    /\ UNCHANGED <<file, deserialize_map, context, status, panic, fail,
                   trace, ctx0, ids, runs, prev, lastReg>>

\* A nested run_stages whose return is never picked up by the closure that
\* called it.
ReturnStalls ==
    /\ status = "running"
    /\ Cur.pc = "lookup"
    /\ Cur.i > Len(Cur.stages)
    /\ IF Depth = 1
       THEN /\ status' = "done"
            /\ stack' = <<>>
       ELSE /\ stack' = SubSeq(stack, 1, Depth - 1)
            /\ UNCHANGED status
    /\ UNCHANGED <<file, deserialize_map, context, panic, fail, events, trace,
                   ctx0, ids, runs, prev, lastReg>>

\* The iterator is exhausted: run_stages returns.  The caller is the
\* application, or the closure of the enclosing run_stages, which drops the
\* stage and moves on.
Return ==
    /\ status = "running"
    /\ Cur.pc = "lookup"
    /\ Cur.i > Len(Cur.stages)
    /\ IF Depth = 1
       THEN /\ status' = "done"
            /\ stack' = <<>>
            /\ UNCHANGED events
       ELSE LET up == stack[Depth - 1] IN
            /\ stack' = [SubSeq(stack, 1, Depth - 1) EXCEPT ![Depth - 1] =
                           [up EXCEPT !.pc = "lookup", !.i = IterNext(up.i),
                                      !.f = NoEntry, !.inst = NoInst]]
            /\ events' = Append(events, [op |-> "drop",
                                         path |-> SubSeq(Path, 1, Depth - 1),
                                         id |-> up.inst.id])
            /\ UNCHANGED status
    /\ UNCHANGED <<file, deserialize_map, context, panic, fail, trace, ctx0,
                   ids, runs, prev, lastReg>>

Next ==
    \/ \E r \in RegInputs : register_named(r[1], r[2])
    \/ \E T \in NamedTypes : register(T)
    \/ \E c \in CtxVals : run(c)
    \/ Lookup
    \/ Factory
    \/ Setup
    \/ StageRun
    \/ NestedRun
    \/ Return

Spec == Init /\ [][Next]_vars

\* run_stages is straight-line code on the calling thread: once run was
\* called, the thread takes the next step of the loop whenever there is one
\* (every concrete stage's setup and run return or panic).  Whether and when
\* the application registers or runs is left open.
RunStep == Lookup \/ Factory \/ Setup \/ StageRun \/ NestedRun \/ Return

FairSpec == Spec /\ WF_vars(RunStep)

\* ------------------------------------------------------------- reference
\* The registry a nested manager of type T holds once its stage was set up.
NestedMapOf(T) == SetupOf(Deserialize(T, StagesVal(<<>>), 0)).map

PanicTypes == {"PanicInSetup", "PanicInRun"}

RECURSIVE Resolvable(_, _)
\* Every name is bound and every args value matches the bound type, also in
\* the nested lists.
Resolvable(stages, map) ==
    \A k \in 1..Len(stages) :
        LET d == stages[k]
            T == map[d.name]
        IN /\ T # NoEntry
           /\ Accepts(T, d.args)
           /\ IsManager(T) => Resolvable(d.args.stages, NestedMapOf(T))

RECURSIVE Flat(_, _)
\* The leaf stages of a resolvable list in declared order, nested lists
\* inlined where they stand.
Flat(stages, map) ==
    IF Len(stages) = 0 THEN <<>>
    ELSE LET d == Head(stages)
             T == map[d.name]
         IN (IF IsManager(T) THEN Flat(d.args.stages, NestedMapOf(T))
             ELSE <<[type |-> T, x |-> d.args.x]>>)
            \o Flat(Tail(stages), map)

RECURSIVE FlatBefore(_, _, _)
\* The leaf stages that stand before the descriptor at path.
FlatBefore(stages, map, path) ==
    LET k == Head(path)
        d == stages[k]
    IN Flat(SubSeq(stages, 1, k - 1), map)
       \o (IF Len(path) > 1
           THEN FlatBefore(d.args.stages, NestedMapOf(map[d.name]), Tail(path))
           ELSE <<>>)

RECURSIVE Locate(_, _, _)
\* The descriptor at path and the registry it is resolved against.
Locate(stages, map, path) ==
    LET d == stages[Head(path)] IN
    IF Len(path) = 1 THEN [desc |-> d, map |-> map]
    ELSE Locate(d.args.stages, NestedMapOf(map[d.name]), Tail(path))

\* What add x and mul x mean for the context.
Effect(st, c) ==
    CASE st.type = "Add" -> c + st.x
      [] st.type = "Mul" -> c * st.x

RECURSIVE Compose(_, _)
\* Left-to-right composition of the effects of tr on c.
Compose(tr, c) ==
    IF Len(tr) = 0 THEN c ELSE Compose(Tail(tr), Effect(Head(tr), c))

IsPrefix(s, t) == Len(s) <= Len(t) /\ s = SubSeq(t, 1, Len(s))

RECURSIVE PathBefore(_, _)
\* p stands before q: p is an enclosing stage of q or comes earlier.
PathBefore(p, q) ==
    IF Len(q) = 0 THEN FALSE
    ELSE IF Len(p) = 0 THEN TRUE
    ELSE IF Head(p) # Head(q) THEN Head(p) < Head(q)
    ELSE PathBefore(Tail(p), Tail(q))

InRun == status \in {"running", "done", "panicked"}

\* Every event of the run belongs to a descriptor before the failing one;
\* of the failing one itself only the operations in ops happened.
NothingFrom(ops) ==
    \A j \in 1..Len(events) :
        \/ PathBefore(events[j].path, fail.path)
        \/ events[j].path = fail.path /\ events[j].op \in ops

\* ------------------------------------------------------------- claims

\* C1: when every name is registered and every args value deserializes, a
\* run applies the stages to the one context in the declared order, none
\* skipped, repeated or reordered: what has run so far is a prefix of the
\* declared list, the context is the left-to-right composition of it, a
\* run that returns has run the whole list, and a run ends early only where
\* a stage's own setup or run fails.
C1_DeclaredOrder ==
    (InRun /\ Resolvable(file, deserialize_map)) =>
        LET exp == Flat(file, deserialize_map) IN
        /\ IsPrefix(trace, exp)
        /\ context = Compose(trace, ctx0)
        /\ status = "done" => trace = exp
        /\ status = "panicked" =>
              /\ fail.op \in {"setup", "run"}
              /\ Len(trace) < Len(exp)
              /\ exp[Len(trace) + 1].type \in PanicTypes

C1_Witness ==
    /\ status = "done"
    /\ Len(file) = 2
    /\ trace = <<[type |-> "Add", x |-> 2], [type |-> "Mul", x |-> 2]>>
    /\ ctx0 = 1
    /\ context = 6

\* C2: a descriptor whose name is not bound ends the run at that descriptor:
\* the run never gets past it, nothing of it or of a later descriptor is
\* constructed, set up or run, and the context is what the stages before it
\* made of it.
C2_UnresolvedName ==
    /\ \A d \in 1..Len(stack) : \A k \in 1..Len(stack[d].stages) :
          k < stack[d].i => stack[d].map[stack[d].stages[k].name] # NoEntry
    /\ status = "done" =>
          \A k \in 1..Len(file) : deserialize_map[file[k].name] # NoEntry
    /\ (status = "panicked" /\ fail.op = "lookup") =>
          LET loc == Locate(file, deserialize_map, fail.path) IN
          /\ loc.map[loc.desc.name] = NoEntry
          /\ fail.name = loc.desc.name
          /\ trace = FlatBefore(file, deserialize_map, fail.path)
          /\ context = Compose(trace, ctx0)
          /\ NothingFrom({})

C2_Witness ==
    /\ status = "panicked"
    /\ fail.op = "lookup"
    /\ fail.path = <<2>>
    /\ Len(trace) > 0
    /\ context # ctx0

\* C3: args that do not match the bound stage type fail nothing when the
\* manager is built or the type registered; the run fails when it reaches
\* the descriptor, the stages before it have run and changed the context,
\* and nothing after it is looked up, constructed or run.
C3_LazyArgsFailure ==
    /\ status = "idle" => panic = NoPanic
    /\ \A d \in 1..Len(stack) : \A k \in 1..Len(stack[d].stages) :
          k < stack[d].i =>
            LET a == stack[d].stages[k] IN
            a.args.kind = (IF IsManager(stack[d].map[a.name]) THEN "stages" ELSE "x")
    /\ (status = "panicked" /\ fail.op = "factory") =>
          LET loc == Locate(file, deserialize_map, fail.path)
              T == loc.map[loc.desc.name]
          IN /\ T # NoEntry
             /\ loc.desc.args.kind # (IF IsManager(T) THEN "stages" ELSE "x")
             /\ trace = FlatBefore(file, deserialize_map, fail.path)
             /\ context = Compose(trace, ctx0)
             /\ NothingFrom({"lookup"})

C3_Witness ==
    /\ status = "panicked"
    /\ fail.op = "factory"
    /\ fail.path = <<2>>
    /\ Len(trace) > 0
    /\ context # ctx0

\* C4: the binding of a name is the type of the latest registration of
\* that name, whatever was bound before, and a run constructs the stage of
\* a descriptor with the type bound to its name.
C4_LastRegistrationWins ==
    /\ lastReg # NoReg => deserialize_map[lastReg.name] = lastReg.type
    /\ \A d \in 1..Len(stack) :
          LET fr == stack[d] IN
          /\ fr.f # NoEntry => fr.f = fr.map[fr.stages[fr.i].name]
          /\ fr.inst # NoInst => fr.inst.type = fr.map[fr.stages[fr.i].name]
    /\ Len(stack) > 0 => stack[1].map = deserialize_map

C4_Witness ==
    /\ lastReg.name = "add"
    /\ lastReg.old = "Add"
    /\ lastReg.type = "Mul"
    /\ deserialize_map["add"] = "Mul"
    /\ \E k \in 1..Len(file) : file[k].name = "add"

\* The descriptor list with every nested list put where its stage stands.
RECURSIVE InlineAll(_)
InlineAll(stages) ==
    IF Len(stages) = 0 THEN <<>>
    ELSE (IF Head(stages).args.kind = "stages" THEN Head(stages).args.stages
          ELSE <<Head(stages)>>)
         \o InlineAll(Tail(stages))

\* The stages a list without nesting names under a registry.
Leaves(stages, map) ==
    [k \in 1..Len(stages) |-> [type |-> map[stages[k].name], x |-> stages[k].args.x]]

\* Every nesting descriptor is a Top, and the registry binds the names used
\* in the nested lists to the types Top registers for them.
Inlinable ==
    /\ \E k \in 1..Len(file) : file[k].args.kind = "stages"
    /\ \A k \in 1..Len(file) :
          file[k].args.kind = "stages" =>
            /\ deserialize_map[file[k].name] = "Top"
            /\ \A j \in 1..Len(file[k].args.stages) :
                  LET n == file[k].args.stages[j].name IN
                  \/ n = "add" /\ deserialize_map[n] = "Add"
                  \/ n = "mul" /\ deserialize_map[n] = "Mul"

\* C5: a stage wrapping a nested manager acts on the context as its nested
\* list put in its place does: the stages that ran are a prefix of the
\* inlined list, all of it when the run returns, the context is their
\* composition, and the run fails where the inlined list would.
C5_NestedIsInlined ==
    (InRun /\ Inlinable) =>
        LET flat == InlineAll(file)
            exp == Leaves(flat, deserialize_map)
        IN /\ IsPrefix(trace, exp)
           /\ context = Compose(trace, ctx0)
           /\ status = "done" => trace = exp
           /\ status = "panicked" =>
                 /\ Len(trace) < Len(exp)
                 /\ LET d == flat[Len(trace) + 1]
                        T == deserialize_map[d.name]
                    IN /\ fail.name = d.name
                       /\ fail.op = (IF T = NoEntry THEN "lookup"
                                     ELSE IF d.args.kind # "x" THEN "factory"
                                     ELSE IF T = "PanicInSetup" THEN "setup"
                                     ELSE "run")

C5_Witness ==
    /\ status = "done"
    /\ Len(file) = 2
    /\ file[1].name = "top"
    /\ Len(file[1].args.stages) = 2
    /\ file[1].args.stages[1].name = "add"
    /\ file[1].args.stages[2].name = "add"
    /\ file[2].name = "mul"
    /\ trace = <<[type |-> "Add", x |-> 2], [type |-> "Add", x |-> 2],
                 [type |-> "Mul", x |-> 2]>>
    /\ ctx0 = 1
    /\ context = 10

\* C6: a second run that follows a first with no registration in between,
\* from an equal initial context, ends as the first did: the same final
\* context, or the same failure at the same descriptor with the same
\* partly changed context.
C6_Deterministic ==
    (prev.valid /\ status \in {"done", "panicked"} /\ prev.ctx0 = ctx0) =>
        /\ prev.status = status
        /\ prev.context = context
        /\ prev.trace = trace
        /\ prev.fail = fail
        /\ prev.panic = panic

C6_Witness ==
    /\ prev.valid
    /\ runs = 2
    /\ status = "panicked"
    /\ prev.ctx0 = ctx0
    /\ fail.path = <<2>>
    /\ context # ctx0

EvIdx(op, id) == {j \in 1..Len(events) : events[j].op = op /\ events[j].id = id}

EvTop(op) == {j \in 1..Len(events) : events[j].op = op /\ Len(events[j].path) = 1}

\* C7: in a run every stage instance comes from one factory call, is set up
\* at most once and after that run at most once, and is dropped after its
\* run; when the run returns every instance was set up, run and dropped
\* exactly once, the n descriptors of the manager took n factory calls, n
\* setups and n runs, and no instance outlives the run, so that a second
\* run builds its own.
C7_Lifecycle ==
    /\ \A j \in 1..Len(events) : events[j].id \in 0..ids
    /\ \A id \in 1..ids :
          /\ Cardinality(EvIdx("factory", id)) = 1
          /\ Cardinality(EvIdx("setup", id)) <= 1
          /\ Cardinality(EvIdx("run", id)) <= 1
          /\ Cardinality(EvIdx("drop", id)) <= 1
          /\ \A s2 \in EvIdx("setup", id) : \E f \in EvIdx("factory", id) : f < s2
          /\ \A r \in EvIdx("run", id) : \E s2 \in EvIdx("setup", id) : s2 < r
          /\ \A d \in EvIdx("drop", id) : \E r \in EvIdx("run", id) : r < d
          /\ status = "done" =>
                /\ Cardinality(EvIdx("setup", id)) = 1
                /\ Cardinality(EvIdx("run", id)) = 1
                /\ Cardinality(EvIdx("drop", id)) = 1
    /\ status = "done" =>
          /\ Cardinality(EvTop("factory")) = Len(file)
          /\ Cardinality(EvTop("setup")) = Len(file)
          /\ Cardinality(EvTop("run")) = Len(file)
    /\ status # "running" => stack = <<>>
    /\ \A d \in 1..Len(stack) :
          stack[d].inst # NoInst =>
            /\ EvIdx("factory", stack[d].inst.id) # {}
            /\ EvIdx("drop", stack[d].inst.id) = {}
            /\ stack[d].pc = "setup" => EvIdx("setup", stack[d].inst.id) = {}
            /\ stack[d].pc = "run" =>
                  /\ EvIdx("setup", stack[d].inst.id) # {}
                  /\ EvIdx("run", stack[d].inst.id) = {}

C7_Witness ==
    /\ runs = 2
    /\ prev.valid
    /\ prev.status = "done"
    /\ status = "done"
    /\ Len(file) = 2
    /\ Cardinality(EvTop("factory")) = 2
    /\ Cardinality(EvTop("run")) = 2

\* The position before p in the same list.
Sibling(p) == [p EXCEPT ![Len(p)] = p[Len(p)] - 1]

\* C8: a stage is looked up, constructed and set up only after the run of
\* the stage before it has returned, when the context already holds the
\* effects of all the stages before it; a descriptor that cannot be
\* resolved or constructed fails the run only then.
C8_LazyConstruction ==
    /\ \A j \in 1..Len(events) :
          LET e == events[j] IN
          (e.op \in {"lookup", "factory", "setup"} /\ e.path[Len(e.path)] > 1) =>
            \E j2 \in 1..(j - 1) :
                events[j2].op = "drop" /\ events[j2].path = Sibling(e.path)
    /\ (status = "running" /\ Cur.pc \in {"lookup", "factory", "setup", "run"}
           /\ Cur.i <= Len(Cur.stages)) =>
          /\ trace = FlatBefore(file, deserialize_map, Path)
          /\ context = Compose(trace, ctx0)
    /\ (status = "panicked" /\ fail.op \in {"lookup", "factory"}) =>
          /\ trace = FlatBefore(file, deserialize_map, fail.path)
          /\ context = Compose(trace, ctx0)

C8_Witness ==
    /\ status = "running"
    /\ Len(stack) = 1
    /\ stack[1].i = 2
    /\ stack[1].pc = "setup"
    /\ Len(trace) > 0
    /\ context # ctx0

\* C9: a run that fails because a name is not bound or a stage cannot be
\* constructed reports the index or the name of that descriptor.
C9_FailureNamesDescriptor ==
    (status = "panicked" /\ fail.op \in {"lookup", "factory"}) =>
        \/ fail.name \in panic.names
        \/ fail.path[Len(fail.path)] \in panic.indices

\* The payload the failing operation raised.
Raised ==
    LET loc == Locate(file, deserialize_map, fail.path)
        T == loc.map[loc.desc.name]
    IN CASE fail.op = "lookup" -> IndexPanic
         [] fail.op = "factory" -> UnwrapPanic(T, loc.desc.args)
         [] OTHER -> StagePanic(T)

\* C10: a failure inside a stage's setup or run, a nested manager's run
\* included, reaches the caller as it was raised and ends every enclosing
\* run_stages: no run gets past a failing stage, and nothing of a later
\* descriptor, nested or of a parent list, is looked up, constructed or
\* run.
C10_StageFailurePropagates ==
    /\ \A d \in 1..Len(stack) : \A k \in 1..Len(stack[d].stages) :
          k < stack[d].i =>
            stack[d].map[stack[d].stages[k].name] \notin PanicTypes
    /\ status = "done" =>
          \A k \in 1..Len(file) :
              /\ deserialize_map[file[k].name] \notin PanicTypes
              /\ IsManager(deserialize_map[file[k].name]) =>
                    Resolvable(<<file[k]>>, deserialize_map)
    /\ (status = "panicked" /\ (fail.op \in {"setup", "run"} \/ Len(fail.path) > 1)) =>
          /\ stack = <<>>
          /\ panic = Raised
          /\ trace = FlatBefore(file, deserialize_map, fail.path)
          /\ context = Compose(trace, ctx0)
          /\ NothingFrom(CASE fail.op = "lookup" -> {}
                            [] fail.op = "factory" -> {"lookup"}
                            [] fail.op = "setup" -> {"lookup", "factory", "setup"}
                            [] OTHER -> {"lookup", "factory", "setup", "run"})

C10_Witness ==
    /\ status = "panicked"
    /\ Len(file) = 2
    /\ fail.path = <<1, 1>>
    /\ Len(file[1].args.stages) = 2
    /\ Len(events) > 0

\* The type of the stage at the top-level position k.
TopType(k) == deserialize_map[file[k].name]

\* C11: a nested manager whose registry was never populated (StageManager
\* itself registered as the stage, with the default no-op setup) runs with
\* no name bound and fails at its first descriptor with the unresolved-name
\* panic, the context as it was when the nested run began; this is the
\* failure of a top-level manager with nothing registered.
C11_UnpopulatedNestedRegistry ==
    /\ \A d \in 2..Len(stack) :
          stack[d - 1].inst.type = "StageManager" =>
            /\ \A n \in Names : stack[d].map[n] = NoEntry
            /\ stack[d].i = 1
            /\ stack[d].pc = "lookup"
    /\ \A d \in 1..Len(stack) : \A k \in 1..Len(stack[d].stages) :
          (k < stack[d].i /\ stack[d].map[stack[d].stages[k].name] = "StageManager")
            => Len(stack[d].stages[k].args.stages) = 0
    /\ status = "done" =>
          \A k \in 1..Len(file) :
              TopType(k) = "StageManager" => Len(file[k].args.stages) = 0
    /\ (status = "panicked" /\ Len(fail.path) = 2
           /\ TopType(fail.path[1]) = "StageManager") =>
          /\ fail.path[2] = 1
          /\ fail.op = "lookup"
          /\ fail.name = file[fail.path[1]].args.stages[1].name
          /\ panic = [msg |-> "no entry found for key", names |-> {}, indices |-> {}]
          /\ trace = FlatBefore(file, deserialize_map, <<fail.path[1]>>)
          /\ context = Compose(trace, ctx0)
    /\ (status = "panicked" /\ \A n \in Names : deserialize_map[n] = NoEntry) =>
          /\ fail.path = <<1>>
          /\ fail.op = "lookup"
          /\ fail.name = file[1].name
          /\ panic = [msg |-> "no entry found for key", names |-> {}, indices |-> {}]
          /\ context = ctx0

C11_Witness ==
    /\ status = "panicked"
    /\ deserialize_map["top"] = "StageManager"
    /\ fail.path = <<2, 1>>
    /\ fail.op = "lookup"
    /\ Len(trace) > 0
    /\ context # ctx0

\* C12: a call of run, whether it returns or fails, leaves the descriptor
\* list and the registry of the manager as they were.
C12_RunKeepsManager ==
    [][(status = "running" \/ status' = "running") =>
          (file' = file /\ deserialize_map' = deserialize_map)]_vars

C12_Witness ==
    /\ runs = 2
    /\ prev.valid
    /\ prev.status = "panicked"
    /\ status = "panicked"
    /\ Len(file) = 2
    /\ Len(trace) = 3

\* The canonical names the stage types declare.
CanonName(T) ==
    IF T = "Add" THEN "add" ELSE IF T = "Mul" THEN "mul" ELSE "top"

\* C13: register(T) is register_named(the canonical name of T, T): a step
\* is the one exactly when it is the other, it binds the canonical name to
\* T in the registry it found, and it leaves the manager ready for a
\* further registration.
C13_RegisterIsRegisterNamed ==
    [][\A T \in NamedTypes :
          /\ register(T) <=> register_named(CanonName(T), T)
          /\ register(T) =>
                /\ deserialize_map' = [deserialize_map EXCEPT ![CanonName(T)] = T]
                /\ file' = file
                /\ status' # "running"
                /\ runs' < MaxRuns]_vars

C13_Witness ==
    /\ lastReg.name = "add"
    /\ lastReg.type = "Add"
    /\ lastReg.old = NoEntry
    /\ deserialize_map["mul"] = "Mul"
    /\ deserialize_map["add"] = "Add"
    /\ deserialize_map["top"] = NoEntry

\* C14: two registrations under different names give the same registry in
\* either order, from every registry the manager can hold; two
\* registrations of one name leave the later one.
C14_RegistrationsCommute ==
    \A r1, r2 \in RegInputs :
        /\ r1[1] # r2[1] =>
              RegisterNamed(RegisterNamed(deserialize_map, r1[1], r1[2]), r2[1], r2[2])
                = RegisterNamed(RegisterNamed(deserialize_map, r2[1], r2[2]), r1[1], r1[2])
        /\ r1[1] = r2[1] =>
              RegisterNamed(RegisterNamed(deserialize_map, r1[1], r1[2]),
                            r2[1], r2[2])[r1[1]] = r2[2]
        /\ \A n \in Names \ {r1[1], r2[1]} :
              RegisterNamed(RegisterNamed(deserialize_map, r1[1], r1[2]),
                            r2[1], r2[2])[n] = deserialize_map[n]

C14_Witness ==
    /\ lastReg.name = "mul"
    /\ lastReg.type = "Mul"
    /\ lastReg.old = NoEntry
    /\ deserialize_map["add"] = "Mul"
    /\ deserialize_map["mul"] = "Mul"

\* The instances of this run that were constructed and not dropped yet,
\* each with the path of the descriptor it was built from.
Live ==
    {j \in 1..Len(events) :
        /\ events[j].op = "factory"
        /\ \A j2 \in 1..Len(events) :
              ~(events[j2].op = "drop" /\ events[j2].id = events[j].id)}

\* C15: while a run is in progress every manager holds at most one stage
\* instance it constructed: the live instances are those the run_stages
\* calls in progress hold, one per nesting level at most, each the stage
\* its call stands at; the one of a position is dropped before the next
\* position is looked up, and a finished run holds none.
C15_OneLiveInstancePerManager ==
    /\ status = "running" =>
          /\ Cardinality(Live) <= Len(stack)
          /\ \A j1, j2 \in Live :
                Len(events[j1].path) = Len(events[j2].path) => j1 = j2
          /\ \A j \in Live :
                LET d == Len(events[j].path) IN
                /\ d <= Len(stack)
                /\ events[j].path = [k \in 1..d |-> stack[k].i]
                /\ stack[d].inst.id = events[j].id
          /\ \A d \in 1..Len(stack) :
                /\ stack[d].inst # NoInst =>
                      \E j \in Live : events[j].id = stack[d].inst.id
                /\ stack[d].pc \in {"lookup", "factory"} => stack[d].inst = NoInst
                /\ d < Len(stack) => stack[d].inst # NoInst
    /\ status = "done" => Live = {}
    /\ status # "running" => stack = <<>>

C15_Witness ==
    /\ status = "running"
    /\ Len(stack) = 2
    /\ stack[1].i = 2
    /\ stack[2].i = 2
    /\ stack[2].pc = "run"
    /\ Cardinality(Live) = 2

\* C16: a nested manager resolves its descriptors against its own registry
\* only: what it binds is what its stage's setup registered (Add and Mul
\* for a Top, nothing for a bare StageManager) whatever the parent binds, a
\* nested name bound in the parent alone fails as unresolved, and the
\* nested registrations leave the parent's registry as it was.
C16_PrivateNestedRegistry ==
    /\ \A d \in 2..Len(stack) :
          LET own == [n \in Names |->
                        IF stack[d - 1].inst.type = "Top" /\ n = "add" THEN "Add"
                        ELSE IF stack[d - 1].inst.type = "Top" /\ n = "mul" THEN "Mul"
                        ELSE NoEntry]
          IN /\ stack[d].map = own
             /\ stack[d].f # NoEntry => stack[d].f = own[stack[d].stages[stack[d].i].name]
             /\ stack[d].inst # NoInst =>
                   stack[d].inst.type = own[stack[d].stages[stack[d].i].name]
             /\ \A k \in 1..Len(stack[d].stages) :
                   k < stack[d].i => own[stack[d].stages[k].name] # NoEntry
    /\ status = "running" => stack[1].map = deserialize_map
    /\ (status = "panicked" /\ Len(fail.path) = 2 /\ fail.name = "top") =>
          /\ fail.op = "lookup"
          /\ panic = [msg |-> "no entry found for key", names |-> {}, indices |-> {}]
    /\ status = "done" =>
          \A k \in 1..Len(file) : \A j \in 1..Len(file[k].args.stages) :
              file[k].args.stages[j].name # "top"

C16_Witness ==
    /\ status = "panicked"
    /\ deserialize_map["top"] = "Top"
    /\ deserialize_map["add"] = "Mul"
    /\ fail.path = <<1, 2>>
    /\ fail.name = "top"
    /\ fail.op = "lookup"
    /\ trace = <<[type |-> "Add", x |-> 2]>>

\* C17: every call of run ends: a run in progress leads to a run that
\* completed with no failure recorded or panicked at one descriptor, with
\* no run_stages call left in progress.
C17_RunEnds ==
    (status = "running") ~>
        (/\ stack = <<>>
         /\ \/ status = "done" /\ fail = NoFail /\ panic = NoPanic
            \/ status = "panicked" /\ fail # NoFail /\ panic # NoPanic)

C17_Witness ==
    /\ status = "done"
    /\ Len(file) = 2
    /\ file[1].name = "top"
    /\ Len(file[1].args.stages) = 2
    /\ Len(trace) = 3
    /\ fail = NoFail

\* C18: the manager from_file returns binds no name, whatever its
\* descriptors; a run with nothing registered and a non-empty list never
\* gets past the lookup of the first descriptor and fails there with the
\* context as it was passed in and no stage constructed; a run of an empty
\* list never fails, constructs nothing and returns with the context as it
\* was passed in, whatever the registry binds.
C18_FreshManager ==
    /\ (status = "idle" /\ runs = 0 /\ lastReg = NoReg) =>
          \A n \in Names : deserialize_map[n] = NoEntry
    /\ (InRun /\ Len(file) > 0 /\ \A n \in Names : deserialize_map[n] = NoEntry) =>
          /\ status # "done"
          /\ context = ctx0
          /\ events = <<>>
          /\ trace = <<>>
          /\ ids = 0
          /\ status = "running" =>
                Len(stack) = 1 /\ stack[1].i = 1 /\ stack[1].pc = "lookup"
          /\ status = "panicked" =>
                /\ fail = [path |-> <<1>>, name |-> file[1].name, op |-> "lookup"]
                /\ panic = [msg |-> "no entry found for key", names |-> {},
                            indices |-> {}]
    /\ (InRun /\ Len(file) = 0) =>
          /\ status # "panicked"
          /\ context = ctx0
          /\ events = <<>>
          /\ trace = <<>>
          /\ fail = NoFail
          /\ status = "running" => Len(stack) = 1 /\ stack[1].pc = "lookup"

C18_Witness ==
    /\ status = "panicked"
    /\ \A n \in Names : deserialize_map[n] = NoEntry
    /\ Len(file) = 2
    /\ file[1].name = "mul"
    /\ fail.path = <<1>>
    /\ context = ctx0
    /\ runs = 1

\* C19: a register_named(n, T) step leaves the binding of every name other
\* than n, and the descriptor list, as they were.
C19_RegisterNamedFrame ==
    [][\A r \in RegInputs :
          register_named(r[1], r[2]) =>
              /\ \A m \in Names \ {r[1]} : deserialize_map'[m] = deserialize_map[m]
              /\ file' = file]_vars

C19_Witness ==
    /\ lastReg = [name |-> "top", type |-> "StageManager", old |-> "Top"]
    /\ deserialize_map["add"] = "PanicInSetup"
    /\ deserialize_map["mul"] = "Mul"
    /\ Len(file) = 2

====
